---- MODULE Spec2Model ----
(***************************************************************************)
(* Club-meeting scheduler (Flask + SQLAlchemy over SQLite): the store of   *)
(* clubs, rooms and meetings, the request handlers of app.py and the       *)
(* report aggregates.                                                      *)
(*                                                                         *)
(* Conventions.  A Python value that may be None is a tuple: <<>> is None  *)
(* and <<x>> is the value x.  Form and query strings are sequences of      *)
(* one-character strings, so that parsing is computed.  A date is          *)
(* <<year, month, day>>, a time is <<hour, minute, second>>.  The float    *)
(* averages of the report are exact fractions <<numerator, denominator>>;  *)
(* for the counts and durations used here no average lies on a rounding    *)
(* tie, where a float and the exact value could round apart.  The strings  *)
(* used hold no white space, which int() and strptime would skip.          *)
(***************************************************************************)
EXTENDS Integers, Sequences, FiniteSets, TLC

VARIABLES clubs, rooms, meetings, now, req, resp

vars == <<clubs, rooms, meetings, now, req, resp>>

----------------------------------------------------------------------------
(* Bounds *)

\* largest meeting_id the store hands out
MaxId == 2
\* number of times the wall clock advances
MaxTicks == 1
\* number of creates that fill a store for the read-only queries
MaxRows == 3

----------------------------------------------------------------------------
(* Optional values and strings *)

None == <<>>
Some(x) == <<x>>
IsNone(o) == o = <<>>
Get(o) == o[1]

DigitChars == <<"0", "1", "2", "3", "4", "5", "6", "7", "8", "9">>
IsDigit(c) == \E i \in 1..10 : DigitChars[i] = c
DigitVal(c) == (CHOOSE i \in 1..10 : DigitChars[i] = c) - 1
AllDigits(s) == Len(s) > 0 /\ \A i \in 1..Len(s) : IsDigit(s[i])

RECURSIVE DigitsVal(_)
DigitsVal(s) ==
    IF Len(s) = 0 THEN 0
    ELSE 10 * DigitsVal(SubSeq(s, 1, Len(s) - 1)) + DigitVal(s[Len(s)])

\* the fields of s between occurrences of sep
RECURSIVE SplitOn(_, _)
SplitOn(s, sep) ==
    IF \A i \in 1..Len(s) : s[i] # sep THEN <<s>>
    ELSE LET k == CHOOSE i \in 1..Len(s) :
                      s[i] = sep /\ \A j \in 1..(i - 1) : s[j] # sep
         IN  <<SubSeq(s, 1, k - 1)>> \o SplitOn(SubSeq(s, k + 1, Len(s)), sep)

\* a strptime numeric field: one to maxLen digits, value in lo..hi
NumField(s, minLen, maxLen, lo, hi) ==
    /\ AllDigits(s)
    /\ Len(s) >= minLen
    /\ Len(s) <= maxLen
    /\ DigitsVal(s) >= lo
    /\ DigitsVal(s) <= hi

IsLeap(y) == (y % 4 = 0 /\ y % 100 # 0) \/ y % 400 = 0
DaysInMonth(y, m) ==
    IF m = 2 THEN (IF IsLeap(y) THEN 29 ELSE 28)
    ELSE IF m \in {4, 6, 9, 11} THEN 30 ELSE 31

\* Python exceptions and results: [raise |-> TRUE] or [raise |-> FALSE, val |-> v]
Raise == [raise |-> TRUE, val |-> None]
Return(v) == [raise |-> FALSE, val |-> v]

\* datetime.strptime(s, "%Y-%m-%d").date()
StrptimeDate(s) ==
    LET p == SplitOn(s, "-") IN
    IF /\ Len(p) = 3
       /\ NumField(p[1], 4, 4, 1, 9999)
       /\ NumField(p[2], 1, 2, 1, 12)
       /\ NumField(p[3], 1, 2, 1, 31)
       /\ DigitsVal(p[3]) <= DaysInMonth(DigitsVal(p[1]), DigitsVal(p[2]))
    THEN Return(<<DigitsVal(p[1]), DigitsVal(p[2]), DigitsVal(p[3])>>)
    ELSE Raise

\* datetime.strptime(s, "%H:%M").time()
StrptimeHM(s) ==
    LET p == SplitOn(s, ":") IN
    IF /\ Len(p) = 2
       /\ NumField(p[1], 1, 2, 0, 23)
       /\ NumField(p[2], 1, 2, 0, 59)
    THEN Return(<<DigitsVal(p[1]), DigitsVal(p[2]), 0>>)
    ELSE Raise

\* datetime.strptime(s, "%H:%M:%S").time()
StrptimeHMS(s) ==
    LET p == SplitOn(s, ":") IN
    IF /\ Len(p) = 3
       /\ NumField(p[1], 1, 2, 0, 23)
       /\ NumField(p[2], 1, 2, 0, 59)
       /\ NumField(p[3], 1, 2, 0, 59)
    THEN Return(<<DigitsVal(p[1]), DigitsVal(p[2]), DigitsVal(p[3])>>)
    ELSE Raise

\* parse_date: s is an optional string; the result value is an optional date
parse_date(s) ==
    IF IsNone(s) \/ Get(s) = <<>> THEN Return(None)
    ELSE LET r == StrptimeDate(Get(s)) IN
         IF r.raise THEN Raise ELSE Return(Some(r.val))

\* parse_time: never raises; the result is an optional time
parse_time(s) ==
    IF IsNone(s) \/ Get(s) = <<>> THEN None
    ELSE IF ~StrptimeHM(Get(s)).raise THEN Some(StrptimeHM(Get(s)).val)
    ELSE IF ~StrptimeHMS(Get(s)).raise THEN Some(StrptimeHMS(Get(s)).val)
    ELSE None

\* lexicographic order on tuples of integers of equal length
RECURSIVE TupleLess(_, _)
TupleLess(a, b) ==
    IF Len(a) = 0 THEN FALSE
    ELSE IF a[1] # b[1] THEN a[1] < b[1]
    ELSE TupleLess(Tail(a), Tail(b))

\* reject_if_past comparing the dates only
reject_if_past_DateOnly(d, t, clock) ==
    IF IsNone(d) \/ IsNone(t) THEN FALSE
    ELSE TupleLess(Get(d), clock[1])

\* reject_if_past treating a missing date or time as past
reject_if_past_MissingIsPast(d, t, clock) ==
    IF IsNone(d) \/ IsNone(t) THEN TRUE
    ELSE TupleLess(Get(d) \o Get(t), clock[1] \o clock[2])

\* reject_if_past: d, t optional; clock is datetime.now() as <<date, time>>
reject_if_past(d, t, clock) ==
    IF IsNone(d) \/ IsNone(t) THEN FALSE
    ELSE TupleLess(Get(d) \o Get(t), clock[1] \o clock[2])

\* int(x) of a string: optional sign, then digits
IntOfStr(s) ==
    IF Len(s) > 0 /\ s[1] \in {"-", "+"}
    THEN IF AllDigits(Tail(s))
         THEN Return(IF s[1] = "-" THEN 0 - DigitsVal(Tail(s)) ELSE DigitsVal(Tail(s)))
         ELSE Raise
    ELSE IF AllDigits(s) THEN Return(DigitsVal(s)) ELSE Raise

\* int(request.form.get(name) or 0)
IntOrZero(f) ==
    IF IsNone(f) \/ Get(f) = <<>> THEN Return(0) ELSE IntOfStr(Get(f))

\* int(request.form.get(name)): None is a TypeError, "" a ValueError
IntRequired(f) ==
    IF IsNone(f) THEN Raise ELSE IntOfStr(Get(f))

\* request.args.get(name, type=int): a failed conversion gives None
ArgInt(f) ==
    IF IsNone(f) THEN None
    ELSE IF IntOfStr(Get(f)).raise THEN None ELSE Some(IntOfStr(Get(f)).val)

Max(a, b) == IF a >= b THEN a ELSE b

----------------------------------------------------------------------------
(* The store: models.py over SQLite *)

\* the SQLite connection is opened without PRAGMA foreign_keys, so the
\* ForeignKey declarations of the schema are not enforced at commit
ForeignKeysEnforced == FALSE

Club(id, name) == [club_id |-> id, name |-> name]
Room(id, building, number, cap) ==
    [room_id |-> id, building |-> building, number |-> number, max_capacity |-> cap]
\* Meeting built with the club and room arguments exchanged
Meeting_Swapped(id, d, t, dur, desc, club, room, inv, acc) ==
    [meeting_id |-> id, date |-> d, start_time |-> t, duration_minutes |-> dur,
     description |-> desc, club_id |-> room, room_id |-> club,
     invited_count |-> inv, accepted_count |-> acc]
Meeting(id, d, t, dur, desc, club, room, inv, acc) ==
    [meeting_id |-> id, date |-> d, start_time |-> t, duration_minutes |-> dur,
     description |-> desc, club_id |-> club, room_id |-> room,
     invited_count |-> inv, accepted_count |-> acc]

SeedClubs == {Club(1, "Chess Club"), Club(2, "Robotics"), Club(3, "Art Society")}
SeedRooms == {Room(1, "Eng", "101", 40), Room(2, "Sci", "202", 60)}
SeedMeetings ==
    {Meeting(1, Some(<<2025, 11, 10>>), Some(<<12, 0, 0>>), 60, Some("Weekly meetup"),
             1, 1, 20, 12),
     Meeting(2, Some(<<2025, 11, 12>>), Some(<<15, 30, 0>>), 90, Some("Workshop"),
             2, 2, 35, 22)}

Ids(ms) == {m.meeting_id : m \in ms}

\* INTEGER PRIMARY KEY without AUTOINCREMENT: the next rowid is max(rowid) + 1
NextId(ms) ==
    IF ms = {} THEN 1
    ELSE (CHOOSE i \in Ids(ms) : \A j \in Ids(ms) : j <= i) + 1

\* the column constraints checked when a pending row is flushed: date and
\* start_time are nullable=False; club_id and room_id are foreign keys
RowAccepted(p, cl, rm) ==
    /\ ~IsNone(p.date)
    /\ ~IsNone(p.start_time)
    /\ ForeignKeysEnforced =>
          /\ p.club_id \in {c.club_id : c \in cl}
          /\ p.room_id \in {r.room_id : r \in rm}

\* the row as stored: the non-null date and time columns hold plain values
Stored(p) == [p EXCEPT !.date = Get(p.date), !.start_time = Get(p.start_time)]

\* a lookup that ignores the id: Meeting.query.first()
QueryGet_First(ms, id) == IF ms = {} THEN {} ELSE {CHOOSE m \in ms : TRUE}

\* Meeting.query.get(id): the set holding the row, or empty
QueryGet(ms, id) == {m \in ms : m.meeting_id = id}

----------------------------------------------------------------------------
(* Responses *)

Redirect(to, arg, msg) == [status |-> 302, to |-> to, arg |-> arg, flash |-> msg]
NotFound == [status |-> 404]
ServerError == [status |-> 500]
Outcome(ms, r) == [meetings |-> ms, resp |-> r]

----------------------------------------------------------------------------
(* Request inputs *)

S_empty == <<>>
D_1110 == <<"2", "0", "2", "5", "-", "1", "1", "-", "1", "0">>
D_1111 == <<"2", "0", "2", "5", "-", "1", "1", "-", "1", "1">>
D_1112 == <<"2", "0", "2", "5", "-", "1", "1", "-", "1", "2">>
D_1113 == <<"2", "0", "2", "5", "-", "1", "1", "-", "1", "3">>
D_slash == <<"1", "1", "/", "1", "2", "/", "2", "0", "2", "5">>
T_1200 == <<"1", "2", ":", "0", "0">>
T_093015 == <<"0", "9", ":", "3", "0", ":", "1", "5">>
T_noon == <<"n", "o", "o", "n">>
N_60 == <<"6", "0">>
N_90 == <<"9", "0">>
N_30 == <<"3", "0">>
N_20 == <<"2", "0">>
N_12 == <<"1", "2">>
N_0 == <<"0">>
N_5 == <<"5">>
N_10 == <<"1", "0">>
N_m5 == <<"-", "5">>
N_x == <<"x">>
N_1 == <<"1">>
N_2 == <<"2">>
N_3 == <<"3">>
N_9 == <<"9">>
N_7 == <<"7">>


Form(d, t, dur, desc, club, room, inv, acc) ==
    [date |-> d, start_time |-> t, duration_minutes |-> dur, description |-> desc,
     club_id |-> club, room_id |-> room, invited_count |-> inv, accepted_count |-> acc]

\* submissions whose fields all parse and whose date and time are present
FormStandup ==
    Form(Some(D_1112), Some(T_1200), Some(N_60), Some("Standup"),
         Some(N_1), Some(N_1), Some(N_20), Some(N_12))
FormReview ==
    Form(Some(D_1111), Some(T_1200), Some(N_90), Some("Review"),
         Some(N_2), Some(N_2), Some(N_0), Some(N_5))
FormOrphan ==
    Form(Some(D_1112), Some(T_093015), None, None,
         Some(N_9), Some(N_7), Some(N_m5), None)
FormYesterday ==
    Form(Some(D_1110), Some(T_1200), Some(N_60), Some("Standup"),
         Some(N_1), Some(N_1), Some(N_20), Some(N_12))
FormSocial ==
    Form(Some(D_1112), Some(T_093015), Some(N_30), None,
         Some(N_3), Some(N_2), Some(N_10), Some(N_0))

GoodForms == {FormStandup, FormReview, FormOrphan, FormYesterday}

\* submissions with an absent, empty or malformed field
OddForms ==
    {Form(Some(D_1110), Some(T_093015), Some(N_60), None,
          None, Some(N_1), Some(N_x), Some(N_12)),
     Form(Some(D_slash), Some(T_1200), Some(N_60), None,
          Some(N_1), Some(N_1), Some(N_20), Some(N_12)),
     Form(None, Some(T_1200), Some(N_60), None,
          Some(N_1), Some(N_1), Some(N_20), Some(N_12)),
     Form(Some(D_1112), Some(T_noon), Some(N_60), None,
          Some(N_1), Some(N_1), Some(N_20), Some(N_12)),
     Form(Some(D_1110), Some(S_empty), Some(N_60), None,
          Some(N_2), Some(N_1), Some(N_20), Some(N_12)),
     Form(Some(D_1113), Some(T_1200), Some(N_60), None,
          Some(N_1), Some(S_empty), Some(N_x), Some(N_12))}

Forms == GoodForms \cup OddForms

\* the submissions that fill the stores the read-only queries are checked on
ReportForms == {FormStandup, FormReview, FormSocial}

\* the ids a URL may name: every id the store can hold and one beyond
UrlIds == 1..(MaxId + 1)

Args(club, room, from, to) ==
    [club_id |-> club, room_id |-> room, date_from |-> from, date_to |-> to]

\* query strings of the report requests issued between the other requests
FewArgs ==
    {Args(None, None, None, None),
     Args(Some(N_1), None, None, Some(D_1112)),
     Args(Some(N_0), Some(N_2), Some(D_1111), None)}

ReportArgs ==
    FewArgs \cup
    {Args(Some(N_1), None, None, None),
     Args(Some(N_0), None, None, None),
     Args(Some(N_x), None, None, None),
     Args(None, Some(N_2), None, None),
     Args(None, None, Some(D_1112), None),
     Args(None, None, None, Some(D_1112)),
     Args(None, None, Some(S_empty), Some(S_empty)),
     Args(None, None, Some(D_1112), Some(D_1112)),
     Args(Some(N_1), Some(N_1), Some(D_1111), Some(D_1113)),
     Args(None, None, Some(D_slash), None),
     Args(None, None, None, Some(D_slash))}

\* datetime.now() at the first request, and one day later after each tick
StartClock == <<<<2025, 11, 11>>, <<12, 0, 0>>>>

----------------------------------------------------------------------------
(* Handlers: each result is the store after the request and the response *)

\* the count taken as submitted, without max(0, ...)
ClampCount_NoClamp(f) == IntOrZero(f)

\* max(0, int(request.form.get(name) or 0))
ClampCount(f) ==
    IF IntOrZero(f).raise THEN Raise ELSE Return(Max(0, IntOrZero(f).val))

\* the unit of work of a create: flush the pending row and commit, or fail
\* with IntegrityError and leave the store as it was
CommitAdd(ms, p, cl, rm) ==
    IF RowAccepted(p, cl, rm)
    THEN Outcome(ms \cup {Stored([p EXCEPT !.meeting_id = NextId(ms)])},
                 Redirect("meetings_list", 0, "Meeting created!"))
    ELSE Outcome(ms, ServerError)

\* the fields of a submission as both handlers read them
FormFields(form) ==
    [d |-> parse_date(form.date),
     t |-> parse_time(form.start_time),
     invited |-> ClampCount(form.invited_count),
     accepted |-> ClampCount(form.accepted_count),
     duration |-> IntOrZero(form.duration_minutes),
     club |-> IntRequired(form.club_id),
     room |-> IntRequired(form.room_id)]

\* FormFields of every submission, computed once
FieldsOf == [form \in Forms \cup ReportForms |-> FormFields(form)]

\* POST /meetings
CreateResult(ms, cl, rm, clock, form) ==
    LET d == FieldsOf[form].d
        t == FieldsOf[form].t
        invited == FieldsOf[form].invited
        accepted == FieldsOf[form].accepted
        duration == FieldsOf[form].duration
        club == FieldsOf[form].club
        room == FieldsOf[form].room
    IN  IF d.raise THEN Outcome(ms, ServerError)
        ELSE IF reject_if_past(d.val, t, clock)
        THEN Outcome(ms, Redirect("meetings_new", 0,
                                  "Cannot schedule a meeting in the past!"))
        ELSE IF invited.raise \/ accepted.raise \/ duration.raise
                \/ club.raise \/ room.raise
        THEN Outcome(ms, ServerError)
        ELSE CommitAdd(ms, Meeting(0, d.val, t, duration.val, form.description,
                                   club.val, room.val, invited.val, accepted.val),
                       cl, rm)

\* the unit of work of an update: flush the changed row and commit, or fail
\* with IntegrityError and leave the store as it was
CommitUpdate(ms, old, p, cl, rm) ==
    IF RowAccepted(p, cl, rm)
    THEN Outcome((ms \ {old}) \cup {Stored(p)},
                 Redirect("meetings_list", 0, "Meeting updated!"))
    ELSE Outcome(ms, ServerError)

\* POST /meetings/<id>/update
UpdateResult(ms, cl, rm, clock, meeting_id, form) ==
    IF QueryGet(ms, meeting_id) = {} THEN Outcome(ms, NotFound)
    ELSE
    LET m == CHOOSE x \in QueryGet(ms, meeting_id) : TRUE
        d == FieldsOf[form].d
        t == FieldsOf[form].t
        duration == FieldsOf[form].duration
        club == FieldsOf[form].club
        room == FieldsOf[form].room
        invited == FieldsOf[form].invited
        accepted == FieldsOf[form].accepted
    IN  IF d.raise THEN Outcome(ms, ServerError)
        ELSE IF reject_if_past(d.val, t, clock)
        THEN Outcome(ms, Redirect("meetings_edit", meeting_id,
                                  "Cannot schedule a meeting in the past!"))
        ELSE IF duration.raise \/ club.raise \/ room.raise
                \/ invited.raise \/ accepted.raise
        THEN Outcome(ms, ServerError)
        ELSE CommitUpdate(ms, m,
                          Meeting(m.meeting_id, d.val, t, duration.val, form.description,
                                  club.val, room.val, invited.val, accepted.val),
                          cl, rm)

\* a delete that never reaches the store
DeleteResult_NoRemove(ms, meeting_id) ==
    IF QueryGet(ms, meeting_id) = {} THEN Outcome(ms, NotFound)
    ELSE Outcome(ms, Redirect("meetings_list", 0, "Meeting deleted!"))

\* POST /meetings/<id>/delete
DeleteResult(ms, meeting_id) ==
    IF QueryGet(ms, meeting_id) = {} THEN Outcome(ms, NotFound)
    ELSE Outcome(ms \ QueryGet(ms, meeting_id),
                 Redirect("meetings_list", 0, "Meeting deleted!"))

----------------------------------------------------------------------------
(* Queries: ORDER BY and the report *)

\* the orders in which the store may scan a table: by ascending rowid, or by
\* descending rowid (PRAGMA reverse_unordered_selects); ORDER BY leaves the
\* order of rows with equal keys to the scan
RECURSIVE ScanUp(_)
ScanUp(S) ==
    IF S = {} THEN <<>>
    ELSE LET m == CHOOSE x \in S : \A y \in S : x.meeting_id <= y.meeting_id
         IN  <<m>> \o ScanUp(S \ {m})
Reverse(s) == [i \in 1..Len(s) |-> s[Len(s) + 1 - i]]
Scans(S) == {ScanUp(S), Reverse(ScanUp(S))}

SortKey(m) == m.date \o m.start_time

\* ORDER BY the date alone
Before_DateOnly(a, b, desc) ==
    IF desc THEN TupleLess(b.date, a.date) ELSE TupleLess(a.date, b.date)

\* a sorts strictly before b under (date, start_time), descending or ascending
Before(a, b, desc) ==
    IF desc THEN TupleLess(SortKey(b), SortKey(a)) ELSE TupleLess(SortKey(a), SortKey(b))

RECURSIVE InsertRow(_, _, _)
InsertRow(sorted, x, desc) ==
    IF sorted = <<>> THEN <<x>>
    ELSE IF Before(x, Head(sorted), desc) THEN <<x>> \o sorted
    ELSE <<Head(sorted)>> \o InsertRow(Tail(sorted), x, desc)

RECURSIVE OrderBy(_, _)
OrderBy(scan, desc) ==
    IF scan = <<>> THEN <<>>
    ELSE InsertRow(OrderBy(SubSeq(scan, 1, Len(scan) - 1), desc), scan[Len(scan)], desc)

\* Meeting.query.order_by(Meeting.date.desc(), Meeting.start_time.desc()).all()
ListRows(scan) == OrderBy(scan, TRUE)

\* Python truthiness of an optional int: None and 0 are false
Truthy(o) == ~IsNone(o) /\ Get(o) # 0

\* the chain of q.filter(...) calls of the report, as a test on one row
ReportFilter(m, club_id, room_id, date_from, date_to) ==
    /\ Truthy(club_id) => m.club_id = Get(club_id)
    /\ Truthy(room_id) => m.room_id = Get(room_id)
    /\ ~IsNone(date_from) => ~TupleLess(m.date, Get(date_from))
    /\ ~IsNone(date_to) => ~TupleLess(Get(date_to), m.date)

\* exact fractions <<numerator, denominator>> in lowest terms, denominator > 0
RECURSIVE GCD(_, _)
GCD(a, b) == IF b = 0 THEN a ELSE GCD(b, a % b)
Abs(x) == IF x < 0 THEN 0 - x ELSE x
Frac(n, d) ==
    LET g == GCD(Abs(n), Abs(d))
        sgn == IF d < 0 THEN 0 - 1 ELSE 1
    IN  <<(sgn * n) \div g, (sgn * d) \div g>>
FracAdd(x, y) == Frac(x[1] * y[2] + y[1] * x[2], x[2] * y[2])
Zero == <<0, 1>>

RECURSIVE SumSeq(_)
SumSeq(s) == IF s = <<>> THEN 0 ELSE s[1] + SumSeq(Tail(s))

RECURSIVE FracSum(_)
FracSum(s) == IF s = <<>> THEN Zero ELSE FracAdd(s[1], FracSum(Tail(s)))

Pow10(k) == IF k = 2 THEN 100 ELSE 1000

\* round(x, nd): the nearest multiple of 10^-nd, a tie going to the even one
Round(x, nd) ==
    LET num == x[1] * Pow10(nd)
        q == num \div x[2]
        r == num % x[2]
        k == IF 2 * r > x[2] THEN q + 1
             ELSE IF 2 * r < x[2] THEN q
             ELSE IF q % 2 = 0 THEN q ELSE q + 1
    IN  Frac(k, Pow10(nd))

Column(rows, name) == [i \in 1..Len(rows) |-> rows[i][name]]

\* sum(column)/n if n else 0
Average(rows, name) ==
    IF Len(rows) # 0 THEN Frac(SumSeq(Column(rows, name)), Len(rows)) ELSE Zero

\* [(m.accepted_count/m.invited_count) for m in rows if m.invited_count]
Rates(rows) ==
    LET eligible == SelectSeq(rows, LAMBDA m : m.invited_count # 0)
    IN  [i \in 1..Len(eligible) |->
            Frac(eligible[i].accepted_count, eligible[i].invited_count)]

\* the rates summed and divided by the number of rows
AverageRate_OverRows(rows) ==
    LET total == FracSum(Rates(rows))
    IN  IF Rates(rows) # <<>> THEN Frac(total[1], total[2] * Len(rows)) ELSE Zero

\* (sum(rates)/len(rates)) if rates else 0
AverageRate(rows) ==
    LET rates == Rates(rows)
        total == FracSum(rates)
    IN  IF rates # <<>> THEN Frac(total[1], total[2] * Len(rates)) ELSE Zero

ReportStats(rows) ==
    [avg_duration |-> Round(Average(rows, "duration_minutes"), 2),
     avg_invited |-> Round(Average(rows, "invited_count"), 2),
     avg_accepted |-> Round(Average(rows, "accepted_count"), 2),
     avg_attendance_rate |-> Round(AverageRate(rows), 3)]

\* the query parameters of a report as the handler reads them
ArgFields(args) ==
    [club_id |-> ArgInt(args.club_id),
     room_id |-> ArgInt(args.room_id),
     date_from |-> IF IsNone(args.date_from) \/ Get(args.date_from) = <<>>
                   THEN Return(None) ELSE parse_date(args.date_from),
     date_to |-> IF IsNone(args.date_to) \/ Get(args.date_to) = <<>>
                 THEN Return(None) ELSE parse_date(args.date_to)]

\* ArgFields of every query string, computed once
ArgsOf == [args \in ReportArgs |-> ArgFields(args)]

\* the rows of a report whose dates parsed: the filters, then ORDER BY
\* (date, start_time); scan is the order in which the store scans the table
ReportRows(args, scan) ==
    OrderBy(SelectSeq(scan,
                LAMBDA m : ReportFilter(m, ArgsOf[args].club_id, ArgsOf[args].room_id,
                                        ArgsOf[args].date_from.val,
                                        ArgsOf[args].date_to.val)),
            FALSE)

\* a date bound of the report is malformed: parse_date raises
ReportFails(args) == ArgsOf[args].date_from.raise \/ ArgsOf[args].date_to.raise

\* GET /report
ReportResult(cl, rm, args, scan) ==
    IF ReportFails(args) THEN ServerError
    ELSE [status |-> 200, template |-> "report.html",
          clubs |-> cl, rooms |-> rm, rows |-> ReportRows(args, scan),
          filters |-> [club_id |-> ArgsOf[args].club_id,
                       room_id |-> ArgsOf[args].room_id,
                       date_from |-> args.date_from, date_to |-> args.date_to],
          stats |-> ReportStats(ReportRows(args, scan))]

----------------------------------------------------------------------------
(* The state machine: one action per route, the init-db command, the clock *)

Req(op, id, input) == [op |-> op, meeting_id |-> id, input |-> input]

\* the state once the module-level startup code of app.py has run on a new
\* database: both seed sets added, no meeting
Init ==
    /\ clubs = SeedClubs
    /\ rooms = SeedRooms
    /\ meetings = {}
    /\ now = StartClock
    /\ req = Req("startup", 0, None)
    /\ resp = [status |-> 0]

\* GET /
home ==
    /\ req' = Req("home", 0, None)
    /\ resp' = [status |-> 200, template |-> "index.html"]
    /\ UNCHANGED <<clubs, rooms, meetings, now>>

\* GET /meetings
meetings_list ==
    \E scan \in Scans(meetings) :
        /\ req' = Req("meetings_list", 0, None)
        /\ resp' = [status |-> 200, template |-> "meetings_list.html",
                    rows |-> ListRows(scan)]
        /\ UNCHANGED <<clubs, rooms, meetings, now>>

\* GET /meetings/new
meetings_new ==
    /\ req' = Req("meetings_new", 0, None)
    /\ resp' = [status |-> 200, template |-> "meeting_form.html", mode |-> "create",
                m |-> None, clubs |-> clubs, rooms |-> rooms, now |-> now]
    /\ UNCHANGED <<clubs, rooms, meetings, now>>

\* POST /meetings
meetings_create(form) ==
    LET out == CreateResult(meetings, clubs, rooms, now, form) IN
    /\ Ids(out.meetings) \subseteq 1..MaxId
    /\ req' = Req("meetings_create", 0, form)
    /\ meetings' = out.meetings
    /\ resp' = out.resp
    /\ UNCHANGED <<clubs, rooms, now>>

\* GET /meetings/<id>/edit
meetings_edit(meeting_id) ==
    /\ req' = Req("meetings_edit", meeting_id, None)
    /\ resp' = IF QueryGet(meetings, meeting_id) = {} THEN NotFound
               ELSE [status |-> 200, template |-> "meeting_form.html", mode |-> "edit",
                     m |-> Some(CHOOSE x \in QueryGet(meetings, meeting_id) : TRUE),
                     clubs |-> clubs, rooms |-> rooms, now |-> now]
    /\ UNCHANGED <<clubs, rooms, meetings, now>>

\* POST /meetings/<id>/update
meetings_update(meeting_id, form) ==
    LET out == UpdateResult(meetings, clubs, rooms, now, meeting_id, form) IN
    /\ req' = Req("meetings_update", meeting_id, form)
    /\ meetings' = out.meetings
    /\ resp' = out.resp
    /\ UNCHANGED <<clubs, rooms, now>>

\* POST /meetings/<id>/delete
meetings_delete(meeting_id) ==
    LET out == DeleteResult(meetings, meeting_id) IN
    /\ req' = Req("meetings_delete", meeting_id, None)
    /\ meetings' = out.meetings
    /\ resp' = out.resp
    /\ UNCHANGED <<clubs, rooms, now>>

\* GET /report
report(args) ==
    \E scan \in Scans(meetings) :
        /\ req' = Req("report", 0, args)
        /\ resp' = ReportResult(clubs, rooms, args, scan)
        /\ UNCHANGED <<clubs, rooms, meetings, now>>

\* flask --app app init-db
init_db ==
    /\ req' = Req("init_db", 0, None)
    /\ clubs' = IF clubs = {} THEN SeedClubs ELSE clubs
    /\ rooms' = IF rooms = {} THEN SeedRooms ELSE rooms
    /\ meetings' = IF meetings = {} THEN {Stored(m) : m \in SeedMeetings} ELSE meetings
    /\ resp' = [status |-> 0, printed |-> "Database initialized & seeded."]
    /\ UNCHANGED now

\* the wall clock moves on by a day
Tick ==
    /\ now[1][3] < StartClock[1][3] + MaxTicks
    /\ now' = <<<<now[1][1], now[1][2], now[1][3] + 1>>, now[2]>>
    /\ UNCHANGED <<clubs, rooms, meetings, req, resp>>

Next ==
    \/ home
    \/ meetings_list
    \/ meetings_new
    \/ \E form \in Forms : meetings_create(form)
    \/ \E id \in UrlIds : meetings_edit(id)
    \/ \E id \in UrlIds, form \in Forms : meetings_update(id, form)
    \/ \E id \in UrlIds : meetings_delete(id)
    \/ \E args \in FewArgs : report(args)
    \/ init_db
    \/ Tick

Spec == Init /\ [][Next]_vars

----------------------------------------------------------------------------
(* The read-only queries over a range of stores *)

\* the stores left by init-db or not, then at most k creates at StartClock
RECURSIVE StoresAfter(_)
StoresAfter(k) ==
    IF k = 0 THEN {{}, {Stored(m) : m \in SeedMeetings}}
    ELSE StoresAfter(k - 1) \cup
         {CreateResult(ms, SeedClubs, SeedRooms, StartClock, f).meetings :
             ms \in StoresAfter(k - 1), f \in ReportForms}

InitReport ==
    /\ clubs = SeedClubs
    /\ rooms = SeedRooms
    /\ meetings \in StoresAfter(MaxRows)
    /\ now = StartClock
    /\ req = Req("startup", 0, None)
    /\ resp = [status |-> 0]

NextReport ==
    \/ meetings_list
    \/ \E args \in ReportArgs : report(args)

SpecReport == InitReport /\ [][NextReport]_vars

----------------------------------------------------------------------------
(* Properties *)

PastNotice == "Cannot schedule a meeting in the past!"

\* the submission's date parses, and its date and start time are both present
HasDateTime(f) ==
    /\ ~FieldsOf[f].d.raise
    /\ ~IsNone(FieldsOf[f].d.val)
    /\ ~IsNone(FieldsOf[f].t)

\* the submission's date and start time, strictly before the clock
IsPast(f, clock) ==
    /\ HasDateTime(f)
    /\ TupleLess(Get(FieldsOf[f].d.val) \o Get(FieldsOf[f].t), clock[1] \o clock[2])

\* the submission's date parses, and its date or its start time is absent
Incomplete(f) ==
    /\ ~FieldsOf[f].d.raise
    /\ IsNone(FieldsOf[f].d.val) \/ IsNone(FieldsOf[f].t)

ToList(r) == r.status = 302 /\ r.to = "meetings_list"

\* this step handles a request of the given kind: every handler records its
\* request in req, and only the clock's step moves now
Handled(op) == now' = now /\ req'.op = op

\* C1: a create, or an update of an existing meeting, whose date and start
\* time are strictly before the clock leaves every stored meeting as it was
\* and redirects to the form it came from: the new-form for a create, the
\* edit-form of that meeting for an update.
C1_PastRejected ==
    [][/\ (Handled("meetings_create") /\ meetings_create(req'.input)
             /\ IsPast(req'.input, now)) =>
                /\ meetings' = meetings
                /\ resp'.status = 302
                /\ resp'.to = "meetings_new"
                /\ resp'.flash = PastNotice
       /\ (Handled("meetings_update") /\ meetings_update(req'.meeting_id, req'.input)
             /\ req'.meeting_id \in Ids(meetings) /\ IsPast(req'.input, now)) =>
                /\ meetings' = meetings
                /\ resp'.status = 302
                /\ resp'.to = "meetings_edit"
                /\ resp'.arg = req'.meeting_id
                /\ resp'.flash = PastNotice]_vars

\* an update of a stored meeting was rejected as past and sent to its edit-form
C1_Witness ==
    /\ req.op = "meetings_update"
    /\ req.meeting_id \in Ids(meetings)
    /\ IsPast(req.input, now)
    /\ resp.status = 302
    /\ resp.to = "meetings_edit"

\* what each well-formed submission says, field by field; an absent duration
\* or count is submitted as 0
Submitted(f) ==
    CASE f = FormStandup ->
            [date |-> <<2025, 11, 12>>, start_time |-> <<12, 0, 0>>,
             duration_minutes |-> 60, description |-> Some("Standup"),
             club_id |-> 1, room_id |-> 1, invited_count |-> 20, accepted_count |-> 12]
      [] f = FormReview ->
            [date |-> <<2025, 11, 11>>, start_time |-> <<12, 0, 0>>,
             duration_minutes |-> 90, description |-> Some("Review"),
             club_id |-> 2, room_id |-> 2, invited_count |-> 0, accepted_count |-> 5]
      [] f = FormOrphan ->
            [date |-> <<2025, 11, 12>>, start_time |-> <<9, 30, 15>>,
             duration_minutes |-> 0, description |-> None,
             club_id |-> 9, room_id |-> 7, invited_count |-> 0 - 5, accepted_count |-> 0]
      [] f = FormYesterday ->
            [date |-> <<2025, 11, 10>>, start_time |-> <<12, 0, 0>>,
             duration_minutes |-> 60, description |-> Some("Standup"),
             club_id |-> 1, room_id |-> 1, invited_count |-> 20, accepted_count |-> 12]

\* the meeting a well-formed submission is to leave under the given id
ExpectedRow(id, f) ==
    [meeting_id |-> id,
     date |-> Submitted(f).date,
     start_time |-> Submitted(f).start_time,
     duration_minutes |-> Submitted(f).duration_minutes,
     description |-> Submitted(f).description,
     club_id |-> Submitted(f).club_id,
     room_id |-> Submitted(f).room_id,
     invited_count |-> Max(0, Submitted(f).invited_count),
     accepted_count |-> Max(0, Submitted(f).accepted_count)]

\* C2: a well-formed create whose date and start time are not in the past
\* adds exactly one meeting, under an id no stored meeting has, holding the
\* submitted values with the counts raised to 0; a well-formed update of an
\* existing meeting replaces that meeting's values and keeps its id and the
\* number of meetings; every other meeting is unchanged and the response is
\* a redirect to the list.
C2_Persisted ==
    [][/\ (Handled("meetings_create") /\ meetings_create(req'.input)
             /\ req'.input \in GoodForms /\ ~IsPast(req'.input, now)) =>
                /\ \E id \in 1..MaxId :
                      /\ id \notin Ids(meetings)
                      /\ ExpectedRow(id, req'.input) \notin meetings
                      /\ meetings' = meetings \cup {ExpectedRow(id, req'.input)}
                /\ Cardinality(meetings') = Cardinality(meetings) + 1
                /\ ToList(resp')
       /\ (Handled("meetings_update") /\ meetings_update(req'.meeting_id, req'.input)
             /\ req'.meeting_id \in Ids(meetings)
             /\ req'.input \in GoodForms /\ ~IsPast(req'.input, now)) =>
                /\ meetings' = {m \in meetings : m.meeting_id # req'.meeting_id}
                                  \cup {ExpectedRow(req'.meeting_id, req'.input)}
                /\ Cardinality(meetings') = Cardinality(meetings)
                /\ ToList(resp')]_vars

\* a create with a negative count, an absent count and an absent duration
\* was persisted beside another meeting
C2_Witness ==
    /\ req.op = "meetings_create"
    /\ req.input = FormOrphan
    /\ ToList(resp)
    /\ ExpectedRow(2, FormOrphan) \in meetings
    /\ Cardinality(meetings) = 2

\* C3: every stored meeting's club_id is the id of a stored club and its
\* room_id is the id of a stored room.
C3_ReferencesExist ==
    \A m \in meetings :
        /\ m.club_id \in {c.club_id : c \in clubs}
        /\ m.room_id \in {r.room_id : r \in rooms}


RowSet(rows) == {rows[i] : i \in 1..Len(rows)}

\* the meeting_id is in no list result, in no report result for any query
\* string, and a delete request for it is answered not-found
Gone(id, ms) ==
    /\ id \notin Ids(ms)
    /\ DeleteResult(ms, id).resp = NotFound
    /\ \A scan \in Scans(ms) :
          /\ id \notin Ids(RowSet(ListRows(scan)))
          /\ \A args \in ReportArgs :
                ~ReportFails(args) => id \notin Ids(RowSet(ReportRows(args, scan)))

\* the effect of a delete request on an existing meeting
DeleteEffect ==
    (Handled("meetings_delete") /\ meetings_delete(req'.meeting_id)
       /\ req'.meeting_id \in Ids(meetings)) =>
          /\ meetings' = {m \in meetings : m.meeting_id # req'.meeting_id}
          /\ Cardinality(meetings') = Cardinality(meetings) - 1
          /\ ToList(resp')
          /\ Gone(req'.meeting_id, meetings')

\* C4 as stated: a delete of an existing meeting removes it and nothing
\* else, and whatever request follows the delete, the meeting_id is still in
\* no list or report result and a delete request for it is not-found.
C4_DeletedForGood ==
    [][/\ DeleteEffect
       /\ (req.op = "meetings_delete" /\ ToList(resp)) =>
             Gone(req.meeting_id, meetings')]_vars

\* C4, amended: a delete of an existing meeting removes it and nothing else;
\* a meeting_id that no stored meeting has is in no list or report result and
\* a delete request for it is not-found; and such an id stays out of the
\* store over every step except a create and the init-db command, which
\* insert rows and give them the ids max + 1 or, into an empty table, 1 and
\* 2: ids that deleted meetings may have had.
C4_DeletedUntilInsert ==
    /\ [](\A id \in UrlIds : id \notin Ids(meetings) => Gone(id, meetings))
    /\ [][/\ DeleteEffect
          /\ \A id \in UrlIds :
                (id \notin Ids(meetings) /\ ~Handled("meetings_create")
                   /\ ~Handled("init_db")) => id \notin Ids(meetings')]_vars

\* a delete of one of two stored meetings succeeded and the other is there
C4_Witness ==
    /\ req.op = "meetings_delete"
    /\ ToList(resp)
    /\ resp.flash = "Meeting deleted!"
    /\ Gone(req.meeting_id, meetings)
    /\ Cardinality(meetings) = 1

\* C5: an edit-form, update or delete request naming a meeting_id that no
\* stored meeting has is answered not-found whatever its form holds, and
\* leaves the meetings, clubs and rooms as they were.
C5_NotFound ==
    [][/\ (Handled("meetings_edit") /\ meetings_edit(req'.meeting_id)
             /\ req'.meeting_id \notin Ids(meetings)) =>
                resp' = NotFound /\ UNCHANGED <<meetings, clubs, rooms>>
       /\ (Handled("meetings_update") /\ meetings_update(req'.meeting_id, req'.input)
             /\ req'.meeting_id \notin Ids(meetings)) =>
                resp' = NotFound /\ UNCHANGED <<meetings, clubs, rooms>>
       /\ (Handled("meetings_delete") /\ meetings_delete(req'.meeting_id)
             /\ req'.meeting_id \notin Ids(meetings)) =>
                resp' = NotFound /\ UNCHANGED <<meetings, clubs, rooms>>]_vars

\* an update with a malformed date, naming an id that a non-empty store
\* does not hold, was answered not-found
C5_Witness ==
    /\ req.op = "meetings_update"
    /\ req.meeting_id \notin Ids(meetings)
    /\ FieldsOf[req.input].d.raise
    /\ resp = NotFound
    /\ meetings # {}


IsReport(r) == r.status = 200 /\ r.template = "report.html"
IsList(r) == r.status = 200 /\ r.template = "meetings_list.html"

RECURSIVE SumOver(_, _)
SumOver(S, name) ==
    IF S = {} THEN 0
    ELSE LET m == CHOOSE x \in S : TRUE IN m[name] + SumOver(S \ {m}, name)

RECURSIVE ProductOfInvited(_)
ProductOfInvited(S) ==
    IF S = {} THEN 1
    ELSE LET m == CHOOSE x \in S : TRUE IN m.invited_count * ProductOfInvited(S \ {m})

\* the mean of accepted_count/invited_count over a set of rows with positive
\* invited_count, over the common denominator; 0 for the empty set
MeanRate(E) ==
    IF E = {} THEN Zero
    ELSE LET shares == {[r EXCEPT !.accepted_count =
                            r.accepted_count * ProductOfInvited(E \ {r})] : r \in E}
         IN  Frac(SumOver(shares, "accepted_count"),
                  ProductOfInvited(E) * Cardinality(E))

MeanOf(S, name) ==
    IF S = {} THEN Zero ELSE Frac(SumOver(S, name), Cardinality(S))

\* C6: in every report the attendance rate shown is the mean of
\* accepted_count/invited_count over the report's rows with invited_count > 0
\* (0 if there is none), and the duration, invited and accepted averages are
\* sum/count over all of the report's rows, each rounded for display (3 and 2
\* places); a report without rows shows 0 four times; for invited counts
\* 20, 0, 10 and accepted counts 12, 5, 0 the attendance rate is 3/10.
C6_ReportAverages ==
    IsReport(resp) =>
        LET R == RowSet(resp.rows)
            E == {m \in R : m.invited_count > 0}
        IN  /\ Cardinality(R) = Len(resp.rows)
            /\ resp.stats.avg_attendance_rate = Round(MeanRate(E), 3)
            /\ resp.stats.avg_duration = Round(MeanOf(R, "duration_minutes"), 2)
            /\ resp.stats.avg_invited = Round(MeanOf(R, "invited_count"), 2)
            /\ resp.stats.avg_accepted = Round(MeanOf(R, "accepted_count"), 2)
            /\ R = {} => resp.stats = [avg_duration |-> Zero, avg_invited |-> Zero,
                                       avg_accepted |-> Zero,
                                       avg_attendance_rate |-> Zero]
            /\ (/\ Column(ScanUp(R), "invited_count") = <<20, 0, 10>>
                /\ Column(ScanUp(R), "accepted_count") = <<12, 5, 0>>)
                  => resp.stats.avg_attendance_rate = <<3, 10>>

\* a report over the three meetings with invited 20, 0, 10 and accepted
\* 12, 5, 0 shows the attendance rate 3/10 and the invited average 10
C6_Witness ==
    /\ IsReport(resp)
    /\ Column(ScanUp(RowSet(resp.rows)), "invited_count") = <<20, 0, 10>>
    /\ Column(ScanUp(RowSet(resp.rows)), "accepted_count") = <<12, 5, 0>>
    /\ resp.stats.avg_attendance_rate = <<3, 10>>
    /\ resp.stats.avg_invited = <<10, 1>>

\* a report parameter naming an id is supplied when it holds an integer, and
\* a date bound is supplied when it is not empty
SuppliedInt(s) == ~IsNone(s) /\ ~IntOfStr(Get(s)).raise
SuppliedDate(s) == ~IsNone(s) /\ Get(s) # <<>>

\* C7: the rows of a report are exactly the stored meetings m with (club id
\* not supplied or m.club_id = club id) and (room id not supplied or
\* m.room_id = room id) and (date_from not supplied or m.date >= date_from)
\* and (date_to not supplied or m.date <= date_to).
C7_ReportRows ==
    (req.op = "report" /\ IsReport(resp)) =>
        LET a == req.input IN
        RowSet(resp.rows) =
            {m \in meetings :
                /\ SuppliedInt(a.club_id) => m.club_id = Get(ArgsOf[a].club_id)
                /\ SuppliedInt(a.room_id) => m.room_id = Get(ArgsOf[a].room_id)
                /\ SuppliedDate(a.date_from) =>
                      ~TupleLess(m.date, Get(ArgsOf[a].date_from.val))
                /\ SuppliedDate(a.date_to) =>
                      ~TupleLess(Get(ArgsOf[a].date_to.val), m.date)}

\* the field was submitted absent, empty or with a minus sign
AbsentOrNegative(field) ==
    \/ IsNone(field)
    \/ Get(field) = <<>>
    \/ Get(field)[1] = "-"

\* the meeting a persisted create or update has written
Written ==
    IF req.op = "meetings_create"
    THEN CHOOSE m \in meetings : \A x \in meetings : x.meeting_id <= m.meeting_id
    ELSE CHOOSE m \in meetings : m.meeting_id = req.meeting_id

\* C8: every stored meeting has invited_count >= 0 and accepted_count >= 0,
\* and the meeting written by a create or update whose count was submitted
\* negative or absent holds 0 for that count.
C8_CountsNonNegative ==
    /\ \A m \in meetings : m.invited_count >= 0 /\ m.accepted_count >= 0
    /\ (req.op \in {"meetings_create", "meetings_update"} /\ ToList(resp)) =>
          /\ AbsentOrNegative(req.input.invited_count) => Written.invited_count = 0
          /\ AbsentOrNegative(req.input.accepted_count) => Written.accepted_count = 0

\* an update submitted invited_count -5 and no accepted_count and was persisted
C8_Witness ==
    /\ req.op = "meetings_update"
    /\ ToList(resp)
    /\ req.input.invited_count = Some(N_m5)
    /\ IsNone(req.input.accepted_count)
    /\ Written.invited_count = 0
    /\ Written.accepted_count = 0

\* a is at or after b in (date, start_time)
AtOrAfter(a, b) ==
    \/ TupleLess(b.date, a.date)
    \/ a.date = b.date /\ ~TupleLess(a.start_time, b.start_time)

\* C9: a list result holds every stored meeting once, each row at or after
\* the next in (date, start_time); a report result holds every meeting its
\* filters select once, each row at or before the next.
C9_Ordered ==
    /\ IsList(resp) =>
          /\ RowSet(resp.rows) = meetings
          /\ Len(resp.rows) = Cardinality(meetings)
          /\ \A i \in 1..(Len(resp.rows) - 1) : AtOrAfter(resp.rows[i], resp.rows[i + 1])
    /\ (req.op = "report" /\ IsReport(resp)) =>
          /\ RowSet(resp.rows) =
                {m \in meetings :
                    ReportFilter(m, resp.filters.club_id, resp.filters.room_id,
                                 ArgsOf[req.input].date_from.val,
                                 ArgsOf[req.input].date_to.val)}
          /\ Len(resp.rows) = Cardinality(RowSet(resp.rows))
          /\ \A i \in 1..(Len(resp.rows) - 1) : AtOrAfter(resp.rows[i + 1], resp.rows[i])

\* a list of four or more meetings with two neighbours on the same date at
\* different times and two neighbours on different dates
C9_Witness ==
    /\ IsList(resp)
    /\ Len(resp.rows) >= 4
    /\ \E i \in 1..(Len(resp.rows) - 1) :
          /\ resp.rows[i].date = resp.rows[i + 1].date
          /\ resp.rows[i].start_time # resp.rows[i + 1].start_time
    /\ \E i \in 1..(Len(resp.rows) - 1) : resp.rows[i].date # resp.rows[i + 1].date

\* the fields other than the date and the start time all parse
OtherFieldsParse(f) ==
    /\ ~FieldsOf[f].duration.raise
    /\ ~FieldsOf[f].club.raise
    /\ ~FieldsOf[f].room.raise
    /\ ~FieldsOf[f].invited.raise
    /\ ~FieldsOf[f].accepted.raise

\* C10 as stated: a create, or an update of an existing meeting, whose date
\* or start time is absent is not rejected as past and ends with the meeting
\* persisted and a redirect to the list.
C10_IncompletePersisted ==
    [][/\ (Handled("meetings_create") /\ meetings_create(req'.input)
             /\ Incomplete(req'.input) /\ OtherFieldsParse(req'.input)) =>
                /\ ToList(resp')
                /\ Cardinality(meetings') = Cardinality(meetings) + 1
       /\ (Handled("meetings_update") /\ meetings_update(req'.meeting_id, req'.input)
             /\ req'.meeting_id \in Ids(meetings)
             /\ Incomplete(req'.input) /\ OtherFieldsParse(req'.input)) =>
                ToList(resp')]_vars

\* C10, amended: a create, or an update of an existing meeting, whose date
\* or start time is absent is not rejected as past; it goes on to the persist
\* step, where the store refuses the row for its missing date or start time
\* (or a malformed field has raised before): the request ends in a server
\* error and every stored meeting is as it was.
C10_IncompleteFails ==
    [][/\ (Handled("meetings_create") /\ meetings_create(req'.input)
             /\ Incomplete(req'.input)) =>
                resp' = ServerError /\ meetings' = meetings
       /\ (Handled("meetings_update") /\ meetings_update(req'.meeting_id, req'.input)
             /\ req'.meeting_id \in Ids(meetings) /\ Incomplete(req'.input)) =>
                resp' = ServerError /\ meetings' = meetings]_vars

\* a create whose start time matches neither format, with every other field
\* well-formed, ended in a server error
C10_Witness ==
    /\ req.op = "meetings_create"
    /\ req.input.start_time = Some(T_noon)
    /\ Incomplete(req.input)
    /\ OtherFieldsParse(req.input)
    /\ resp = ServerError

====
